---- MODULE Spec2Model ----
\* A model of reduct (src/src/reduct/__init__.py): the source store, the
\* metadata and content extractors, the "add one source" primitive, the batch
\* command and the breadth-first site crawler.
\*
\* Text is modelled as a sequence of atoms (a title is a sequence of
\* characters, a host a sequence of labels, a path a sequence of segments), so
\* that slugification, host comparison and the substring denylist are computed
\* rather than assumed.  The collaborators (yt-dlp, requests, whisper) are the
\* environment: each call draws their answer from a small set.  The filesystem
\* itself is taken to be reliable (mkdir and open do not fail).
EXTENDS Integers, Sequences, FiniteSets, TLC

VARIABLES store, now, source_info, add_log, last_add, exit_status, pc, url, max_depth, max_pages, delay, skip_content, base_domain, site_dir, visited, queue, crawled_count, crawl_log, enq_log, last_step, sleeps, report, url_list, i, successful, failed, batch_log, last_cmd, env, health

storeVars == <<store, now, source_info, add_log, last_add>>
crawlVars == <<url, max_depth, max_pages, base_domain, site_dir, visited, queue, crawled_count, crawl_log, enq_log, last_step, report>>
batchVars == <<url_list, i, successful, failed, batch_log>>
llmVars == <<last_cmd, env, health>>
vars == <<store, now, source_info, add_log, last_add, exit_status, pc, url, max_depth, max_pages, delay, skip_content, base_domain, site_dir, visited, queue, crawled_count, crawl_log, enq_log, last_step, sleeps, report, url_list, i, successful, failed, batch_log, last_cmd, env, health>>

-----------------------------------------------------------------------------
\* Bounds of the model.

\* Longest anchor list of one fetched page.
MaxLinks == 2
\* Largest --max-depth option tried (the smallest is -1).
MaxDepthOpt == 2
\* Largest --max-pages option tried (the smallest is -1).
MaxPagesOpt == 3
\* Longest URL list given to add_sources_batch.
MaxBatch == 3
\* Number of commands run one after the other against one store.
MaxAdds == 2

-----------------------------------------------------------------------------
\* Text helpers.

Range(s) == {s[k] : k \in DOMAIN s}

\* F(v) with v evaluated once, before F is applied: a local variable that is
\* assigned once and read several times.
With(v, F(_)) == CHOOSE r \in {F(x) : x \in {v}} : TRUE

\* Python's "p in s" for strings: p occurs in s as a contiguous run.
IsSubSeq(p, s) == \E k \in 0..(Len(s) - Len(p)) : \A j \in 1..Len(p) : s[k + j] = p[j]

\* str.lower() on one atom.
Lower(c) == CASE c = "A" -> "a" [] c = "B" -> "b" [] c = "W" -> "w" [] c = "P" -> "p" [] c = "Y" -> "y" [] c = "T" -> "t" [] c = "V" -> "v" [] c = ".PDF" -> ".pdf" [] OTHER -> c

Alnum == {"a", "b", "e", "g", "o", "u", "d", "i", "w", "p", "y", "t", "v", "A", "B", "W", "P", "Y", "T", "V", "example", "com", "sub", "other", "org", "youtube"}

\* The elements of s at the indices in keep, in order.
Pick(s, keep) == [j \in 1..Cardinality(keep) |-> s[CHOOSE k \in keep : Cardinality({m \in keep : m < k}) = j - 1]]

\* Every non-alphanumeric atom becomes a separator; alphanumerics are lower-cased.
Separated(text) == [k \in DOMAIN text |-> IF text[k] \in Alnum THEN Lower(text[k]) ELSE "-"]

\* The indices that survive: every alphanumeric, and the first separator of a
\* run that has alphanumerics on both sides.
SlugIndices(t) == {k \in DOMAIN t : t[k] # "-" \/ (k > 1 /\ t[k - 1] # "-" /\ \E m \in DOMAIN t : m > k /\ t[m] # "-")}

\* slugify(text, lowercase=True, separator="-"): lower-case, every run of
\* non-alphanumerics becomes one separator, separators at the ends are dropped.
slugify(text) == With(Separated(text), LAMBDA t : With(SlugIndices(t), LAMBDA keep : Pick(t, keep)))

create_source_slug(title) == slugify(title)

-----------------------------------------------------------------------------
\* URLs.  A URL is [host, path]: host the labels of the netloc, path the
\* segments after it (a segment may be a fragment marker or an extension).

ExampleHost == <<"example", "com">>
SubHost == <<"sub", "example", "com">>
OtherHost == <<"other", "org">>
VideoHost == <<"youtube", "com">>

Url(h, p) == [host |-> h, path |-> p]

\* The text of a host: its labels separated by dots.
HostText(h) == [k \in 1..(2 * Len(h) - 1) |-> IF k % 2 = 1 THEN h[(k + 1) \div 2] ELSE "."]

\* urlparse(u).netloc
netloc(u) == u.host

\* "youtube.com" in url or "youtu.be" in url (a substring test on the whole
\* URL: the host, or a path that quotes the name).
IsVideoUrl(u) == IsSubSeq(VideoHost, u.host) \/ "youtube.com" \in Range(u.path) \/ "youtu.be" \in Range(u.path)

-----------------------------------------------------------------------------
\* Metadata extractor.  A source record is [title, url, type, error,
\* date_added]; error = Absent stands for a dict without the "error" key.
\* Every function's outcome is [exc, val]: exc is TRUE when the call raises.
\* An optional value is a sequence: None, or Some(x).

Absent == "absent"
None == <<>>
Some(x) == <<x>>
YoutubeTitle == <<"Y", "o", "u", "T", "u", "b", "e", " ", "V", "i", "d", "e", "o">>
WebTitle == <<"W", "e", "b", " ", "P", "a", "g", "e">>

\* Titles the collaborators may report.
Titles == {<<"A", "b">>, <<"a", "b">>, <<"a", " ", "b">>, <<"a", "!", "!", "b">>, <<"!">>}

Return(v) == [exc |-> FALSE, val |-> Some(v)]
Raise == [exc |-> TRUE, val |-> None]

\* What the collaborators answer during one add: meta is the metadata
\* provider (it raises, returns nothing, returns fields without a title, or
\* returns a title), content the content extraction (fine, or it raises).
VideoResponses == [meta : {"raise", "none", "no_title", "ok"}, title : Titles, content : {"ok", "raise"}]
WebResponses == [meta : {"raise", "no_title", "ok"}, title : Titles, content : {"ok", "raise"}]
ResponsesFor(u) == {r \in (IF IsVideoUrl(u) THEN VideoResponses ELSE WebResponses) : r.meta # "ok" => r.title = <<"a", "b">>}

SourceRecord(title, u, type, error, t) == [title |-> title, url |-> u, type |-> type, error |-> error, date_added |-> t]

get_youtube_info(u, resp, t) ==
    CASE resp.meta = "raise" -> Return(SourceRecord(YoutubeTitle, u, "video", "err", t))
      [] resp.meta = "none" -> Return(SourceRecord(YoutubeTitle, u, "video", Absent, t))
      [] resp.meta = "no_title" -> Return(SourceRecord(YoutubeTitle, u, "video", Absent, t))
      [] OTHER -> Return(SourceRecord(resp.title, u, "video", Absent, t))

get_web_info(u, resp, t) ==
    CASE resp.meta = "raise" -> Return(SourceRecord(WebTitle, u, "article", "err", t))
      [] resp.meta = "no_title" -> Return(SourceRecord(WebTitle, u, "article", Absent, t))
      [] OTHER -> Return(SourceRecord(resp.title, u, "article", Absent, t))

get_source_info(u, resp, t) == IF IsVideoUrl(u) THEN get_youtube_info(u, resp, t) ELSE get_web_info(u, resp, t)

-----------------------------------------------------------------------------
\* Content extractor.  A content blob is <<kind, url>>.

extract_web_content(u, resp) == IF resp.content = "raise" THEN Return(<<"error_text", u>>) ELSE Return(<<"text", u>>)

transcribe_from_url(u, resp) == IF resp.content = "raise" THEN Raise ELSE Return(<<"transcript", u>>)

-----------------------------------------------------------------------------
\* Source store.  The filesystem under the output directory is a function from
\* directory paths (sequences of names, <<>> the output directory itself) to
\* the three files a directory may hold.

\* A file is None (it does not exist) or Some(its content).
NoFile == None
EmptyDir == [data |-> NoFile, content |-> NoFile, summary |-> NoFile]
EmptyStore == [p \in {} |-> EmptyDir]

Prefixes(p) == {SubSeq(p, 1, k) : k \in 0..Len(p)}

\* Path(parent) / name: joining an empty name gives the parent itself.
JoinPath(parent, name) == IF name = <<>> THEN parent ELSE Append(parent, name)

\* A mkdir that would empty a directory that exists (not what the code does).
MkDirsFresh(st, p) == [q \in (DOMAIN st) \cup Prefixes(p) |-> IF q \in DOMAIN st /\ q # p THEN st[q] ELSE EmptyDir]
\* mkdir(parents=True, exist_ok=True) and os.makedirs(exist_ok=True).
MkDirs(st, p) == [q \in (DOMAIN st) \cup Prefixes(p) |-> IF q \in DOMAIN st THEN st[q] ELSE EmptyDir]

\* open(file, "w"); write: the file's old content is replaced.
WriteFile(st, p, file, text) == [st EXCEPT ![p] = [@ EXCEPT ![file] = Some(text)]]

\* A write that would keep an existing data.yaml (not what the code does).
WriteDataKeepFirst(st, p, info) == IF st[p].data = NoFile THEN WriteFile(st, p, "data", info) ELSE st
\* with open(data_file, "w") as f: yaml.dump(source_info, f)
WriteData(st, p, info) == WriteFile(st, p, "data", info)

create_source_directory(st, info, parent_dir) ==
    With(JoinPath(parent_dir, create_source_slug(info.title)), LAMBDA source_dir : [store |-> WriteData(MkDirs(st, source_dir), source_dir, info), source_dir |-> source_dir])

ExtractContent(info, u, resp) == IF info.type = "video" THEN transcribe_from_url(u, resp) ELSE extract_web_content(u, resp)

HasError(info) == info.error # Absent

\* _add_single_source: [ok, store, info, source_dir, created].  An exception
\* of the content extraction is caught by the function's own handler, which
\* returns False after the directory and data.yaml were written.
AddSingleSource(st, u, skip, parent_dir, resp, t) ==
    With(get_source_info(u, resp, t), LAMBDA got :
        IF got.exc \/ HasError(got.val[1]) THEN [ok |-> FALSE, store |-> MkDirs(st, parent_dir), info |-> got, source_dir |-> None, created |-> FALSE]
        ELSE With(create_source_directory(MkDirs(st, parent_dir), got.val[1], parent_dir), LAMBDA made :
            IF skip THEN [ok |-> TRUE, store |-> made.store, info |-> got, source_dir |-> Some(made.source_dir), created |-> TRUE]
            ELSE With(ExtractContent(got.val[1], u, resp), LAMBDA content :
                IF content.exc THEN [ok |-> FALSE, store |-> made.store, info |-> got, source_dir |-> Some(made.source_dir), created |-> TRUE]
                ELSE [ok |-> TRUE, store |-> WriteFile(made.store, made.source_dir, "content", content.val[1]), info |-> got, source_dir |-> Some(made.source_dir), created |-> TRUE])))

\* The state change of one call of _add_single_source: the store, the clock
\* (datetime.now() of the record) and the records of what the call did.
AddApply(u, skip, parent_dir, resp, r) ==
    /\ store' = r.store
    /\ now' = now + 1
    /\ source_info' = Some(r.info)
    /\ add_log' = IF r.created THEN Append(add_log, [parent |-> parent_dir, info |-> r.info.val[1], dir |-> r.source_dir[1]]) ELSE add_log
    /\ last_add' = Some([url |-> u, skip |-> skip, resp |-> resp, ok |-> r.ok, source_dir |-> r.source_dir])

AddStep(u, skip, parent_dir, resp) ==
    \E r \in {AddSingleSource(store, u, skip, parent_dir, resp, now)} : AddApply(u, skip, parent_dir, resp, r)

AddResult(u, skip, parent_dir, resp) == AddSingleSource(store, u, skip, parent_dir, resp, now).ok

-----------------------------------------------------------------------------
\* The add_source command, run repeatedly against one store.

Urls == {Url(ExampleHost, <<"a">>), Url(VideoHost, <<"v">>)}

InitCommon ==
    /\ store = EmptyStore
    /\ now = 0
    /\ source_info = None
    /\ add_log = <<>>
    /\ last_add = None
    /\ exit_status = None
    /\ sleeps = 0
    /\ last_cmd = None
    /\ env = None
    /\ health = None

InitNoCrawl ==
    /\ url = None
    /\ max_depth = 0
    /\ max_pages = 0
    /\ base_domain = <<>>
    /\ site_dir = <<>>
    /\ visited = {}
    /\ queue = <<>>
    /\ crawled_count = 0
    /\ crawl_log = <<>>
    /\ enq_log = <<>>
    /\ last_step = None
    /\ report = None

InitNoBatch ==
    /\ url_list = <<>>
    /\ i = 0
    /\ successful = 0
    /\ failed = 0
    /\ batch_log = <<>>

Init ==
    /\ InitCommon
    /\ InitNoCrawl
    /\ InitNoBatch
    /\ pc = "idle"
    /\ delay = 0
    /\ skip_content = FALSE

\* add_source: one _add_single_source into the output directory; the command
\* exits 1 when it failed.
add_source(u, skip, resp) ==
    /\ pc = "idle"
    /\ now < MaxAdds
    /\ \E r \in {AddSingleSource(store, u, skip, <<>>, resp, now)} :
        /\ AddApply(u, skip, <<>>, resp, r)
        /\ exit_status' = IF r.ok THEN Some(0) ELSE Some(1)
    /\ skip_content' = skip
    /\ UNCHANGED <<pc, delay, sleeps>>
    /\ UNCHANGED crawlVars
    /\ UNCHANGED batchVars
    /\ UNCHANGED llmVars

\* The content is asked for only when the metadata extraction did not raise
\* and --skip-content is off; an answer that is never asked for is left out.
ContentTried(resp, skip) == (skip \/ resp.meta = "raise") => resp.content = "ok"

AddSource == \E u \in Urls, skip \in BOOLEAN : \E resp \in {r \in ResponsesFor(u) : ContentTried(r, skip)} : add_source(u, skip, resp)

Next == AddSource

Spec == Init /\ [][Next]_vars

-----------------------------------------------------------------------------
\* LLM configuration and the summarize commands.

\* The environment of a process: LLM_MODEL is None (unset) or Some(name), a
\* name being its prefix and the rest (<<>> is the empty string); a key is
\* None (unset), Some("") or Some("k").
ModelNames == {<<>>, <<"anthropic/", "m">>, <<"openai/", "m">>, <<"gpt-", "m">>, <<"other/", "m">>}
KeyValues == {None, Some(""), Some("k")}
Envs == [LLM_MODEL : {None} \cup {Some(m) : m \in ModelNames}, LLM_KEY : KeyValues, ANTHROPIC_API_KEY : KeyValues, OPENAI_API_KEY : KeyValues]

\* str.startswith on a model name.
StartsWith(name, prefix) == name # <<>> /\ name[1] = prefix

\* Python truthiness of os.getenv(...) and of api_key: unset and "" are falsy.
Truthy(v) == v # None /\ v # Some("")

\* api_key of summarize_content (lines 34-43): LLM_KEY first when it is in
\* the environment, then the key of the model's provider.
ApiKey(e) ==
    IF e.LLM_KEY # None THEN e.LLM_KEY
    ELSE IF StartsWith(e.LLM_MODEL[1], "anthropic/") /\ e.ANTHROPIC_API_KEY # None THEN e.ANTHROPIC_API_KEY
    ELSE IF (StartsWith(e.LLM_MODEL[1], "openai/") \/ StartsWith(e.LLM_MODEL[1], "gpt-")) /\ e.OPENAI_API_KEY # None THEN e.OPENAI_API_KEY
    ELSE None

\* The configuration summarize_content refuses: no LLM_MODEL, or no api_key.
ConfigFailure(e) == e.LLM_MODEL = None \/ ~Truthy(ApiKey(e))

\* The summary the LLM writes of a content.
SummaryOf(content) == <<"summary", content>>

\* summarize_content: [kind, val].  kind is "exit" (raise typer.Exit(1)),
\* "raise" (litellm.completion raised) or "return".
summarize_content(content, e, answer) ==
    IF ConfigFailure(e) THEN [kind |-> "exit", val |-> None]
    ELSE IF answer = "raise" THEN [kind |-> "raise", val |-> None]
    ELSE [kind |-> "return", val |-> Some(SummaryOf(content))]

\* What "except Exception" catches: typer.Exit is click's Exit, a
\* RuntimeError, so the handler catches it like any other exception.
CaughtByHandler(kind) == kind \in {"raise", "exit"}

\* get_sources_list: the directories right under the output directory.
get_sources_list(st) == IF <<>> \in DOMAIN st THEN {p \in DOMAIN st : Len(p) = 1} ELSE {}

\* The orders in which iterdir() may list a set of directories.
Orders(S) == {o \in [1..Cardinality(S) -> S] : Range(o) = S}

\* What a command did: its name, environment and argument, its exit status,
\* the directories whose content was given to summarize_content (in order),
\* and the numbers it printed.
Cmd(name, e, source, status, requested, out) ==
    Some([cmd |-> name, env |-> e, source |-> source, exit |-> status, requested |-> requested, out |-> out])

\* The environments the commands are run in: no model, a model without any
\* key, a model with its provider's key, a model with LLM_KEY.
CommandEnvs == {e \in Envs : e.OPENAI_API_KEY = None /\ e.LLM_MODEL \in {None, Some(<<"anthropic/", "m">>)} /\ e.LLM_KEY \in {None, Some("k")} /\ e.ANTHROPIC_API_KEY \in {None, Some("k")} /\ (e.LLM_MODEL = None => e.LLM_KEY = None /\ e.ANTHROPIC_API_KEY = None) /\ (e.LLM_KEY # None => e.ANTHROPIC_API_KEY = None)}

\* A test that never finds a summary (not what the code does).
SummaryExistsNever(st, p) == FALSE
\* if summary_file.exists(): the source is left alone.
SummaryExists(st, p) == st[p].summary # NoFile

\* One iteration of the loop of summarize_all (lines 602-638) on directory p:
\* acc is [store, successful, failed, requested, exit], exit = 0 while the
\* loop runs.
SummarizeOne(acc, p, e, answer) ==
    IF acc.exit # 0 THEN acc
    ELSE IF acc.store[p].content = NoFile THEN [acc EXCEPT !.failed = @ + 1]
    ELSE IF SummaryExists(acc.store, p) THEN acc
    ELSE With(summarize_content(acc.store[p].content[1], e, answer), LAMBDA r :
        IF r.kind = "return" THEN [acc EXCEPT !.store = WriteFile(acc.store, p, "summary", r.val[1]), !.successful = @ + 1, !.requested = Append(@, p)]
        ELSE IF CaughtByHandler(r.kind) THEN [acc EXCEPT !.failed = @ + 1, !.requested = Append(@, p)]
        ELSE [acc EXCEPT !.exit = 1, !.requested = Append(@, p)])

RECURSIVE SummarizeLoop(_, _, _, _, _)
SummarizeLoop(acc, order, k, e, answers) ==
    IF k > Len(order) THEN acc
    ELSE SummarizeLoop(SummarizeOne(acc, order[k], e, answers[order[k]]), order, k + 1, e, answers)

\* summarize_all: the loop over get_sources_list(), then the tally.
summarize_all(st, e, order, answers) ==
    SummarizeLoop([store |-> st, successful |-> 0, failed |-> 0, requested |-> <<>>, exit |-> 0], order, 1, e, answers)

\* The summarize_all command.  time.sleep between the API calls changes
\* nothing of the state and is left out.
SummarizeAll ==
    /\ pc = "shell"
    /\ \E e \in CommandEnvs, order \in Orders(get_sources_list(store)) :
        \E answers \in [get_sources_list(store) -> {"ok", "raise"}] :
            \E r \in {summarize_all(store, e, order, answers)} :
                /\ store' = r.store
                /\ exit_status' = Some(r.exit)
                /\ last_cmd' = Cmd("summarize_all", e, None, r.exit, r.requested, <<r.successful, r.failed, Len(order)>>)
    /\ UNCHANGED <<now, source_info, add_log, last_add, pc, delay, skip_content, sleeps, env, health>>
    /\ UNCHANGED crawlVars
    /\ UNCHANGED batchVars

\* summarize SOURCE: [store, exit, requested].  An exception of
\* summarize_content, typer.Exit or any other, ends the command with status 1;
\* with --output-file - the summary is printed, not written.
summarize(st, source, to_stdout, e, answer) ==
    IF source \notin DOMAIN st THEN [store |-> st, exit |-> 1, requested |-> <<>>]
    ELSE IF st[source].content = NoFile THEN [store |-> st, exit |-> 1, requested |-> <<>>]
    ELSE With(summarize_content(st[source].content[1], e, answer), LAMBDA r :
        IF r.kind # "return" THEN [store |-> st, exit |-> 1, requested |-> <<source>>]
        ELSE IF to_stdout THEN [store |-> st, exit |-> 0, requested |-> <<source>>]
        ELSE [store |-> WriteFile(st, source, "summary", r.val[1]), exit |-> 0, requested |-> <<source>>])

\* The source arguments tried: every directory of the store, and one that
\* does not exist.
SourceArgs(st) == (DOMAIN st) \cup {<<<<"x">>>>}

Summarize ==
    /\ pc = "shell"
    /\ \E e \in CommandEnvs, source \in SourceArgs(store), to_stdout \in BOOLEAN, answer \in {"ok", "raise"} :
        \E r \in {summarize(store, source, to_stdout, e, answer)} :
            /\ store' = r.store
            /\ exit_status' = Some(r.exit)
            /\ last_cmd' = Cmd("summarize", e, Some(source), r.exit, r.requested, <<>>)
    /\ UNCHANGED <<now, source_info, add_log, last_add, pc, delay, skip_content, sleeps, env, health>>
    /\ UNCHANGED crawlVars
    /\ UNCHANGED batchVars

\* status: the numbers it prints (total sources, with content, with
\* summaries); it only reads.
status(st) == <<Cardinality(get_sources_list(st)), Cardinality({p \in get_sources_list(st) : st[p].content # NoFile}), Cardinality({p \in get_sources_list(st) : st[p].summary # NoFile})>>

Status ==
    /\ pc = "shell"
    /\ \E e \in CommandEnvs : last_cmd' = Cmd("status", e, None, 0, <<>>, status(store))
    /\ exit_status' = Some(0)
    /\ UNCHANGED <<store, now, source_info, add_log, last_add, pc, delay, skip_content, sleeps, env, health>>
    /\ UNCHANGED crawlVars
    /\ UNCHANGED batchVars

\* The stores the summarize commands may find: what up to MaxAdds runs of
\* add_source leave behind.
StoreUrls == {Url(ExampleHost, <<"a">>), Url(VideoHost, <<"v">>)}
StoreResponses(u) == {r \in ResponsesFor(u) : r.title \in {<<"a", "b">>, <<"a", " ", "b">>} /\ r.meta \in {"raise", "ok"}}

RECURSIVE AddedStores(_)
AddedStores(n) ==
    IF n = 0 THEN {EmptyStore}
    ELSE AddedStores(n - 1) \cup {AddSingleSource(st, u, skip, <<>>, resp, 0).store : st \in AddedStores(n - 1), u \in StoreUrls, skip \in BOOLEAN, resp \in UNION {StoreResponses(v) : v \in StoreUrls}}

InitSummarize ==
    /\ store \in AddedStores(MaxAdds)
    /\ now = 0
    /\ source_info = None
    /\ add_log = <<>>
    /\ last_add = None
    /\ exit_status = None
    /\ sleeps = 0
    /\ last_cmd = None
    /\ env = None
    /\ health = None
    /\ InitNoCrawl
    /\ InitNoBatch
    /\ pc = "shell"
    /\ delay = 0
    /\ skip_content = FALSE

NextSummarize == Summarize \/ SummarizeAll \/ Status

SpecSummarize == InitSummarize /\ [][NextSummarize]_vars

-----------------------------------------------------------------------------
\* The server (reduct_server.py): GET /health.

\* "not llm_model": LLM_MODEL unset or the empty string.
NoModel(e) == e.LLM_MODEL = None \/ e.LLM_MODEL[1] = <<>>

Unhealthy(error) == [status |-> "unhealthy", model |-> None, error |-> error]
Healthy(model) == [status |-> "healthy", model |-> Some(model), error |-> ""]

\* health_check: what GET /health answers in environment e.
health_check(e) ==
    IF NoModel(e) THEN Unhealthy("LLM_MODEL environment variable not set")
    ELSE IF ~Truthy(e.LLM_KEY) /\ StartsWith(e.LLM_MODEL[1], "anthropic/") /\ ~Truthy(e.ANTHROPIC_API_KEY) THEN Unhealthy("LLM_KEY or ANTHROPIC_API_KEY not set")
    ELSE IF ~Truthy(e.LLM_KEY) /\ StartsWith(e.LLM_MODEL[1], "openai/") /\ ~Truthy(e.OPENAI_API_KEY) THEN Unhealthy("LLM_KEY or OPENAI_API_KEY not set")
    ELSE Healthy(e.LLM_MODEL[1])

\* Before the server is started.
InitHealth ==
    /\ InitCommon
    /\ InitNoCrawl
    /\ InitNoBatch
    /\ pc = "server"
    /\ delay = 0
    /\ skip_content = FALSE

\* The app is served in some environment: by main(), which refuses to start
\* without LLM_MODEL, or by any ASGI server importing reduct_server:app.
ServerStart ==
    /\ pc = "server"
    /\ env = None
    /\ env' \in {Some(e) : e \in Envs}
    /\ UNCHANGED <<last_cmd, health, exit_status, pc, delay, skip_content, sleeps>>
    /\ UNCHANGED storeVars
    /\ UNCHANGED crawlVars
    /\ UNCHANGED batchVars

\* GET /health.
HealthCheck ==
    /\ pc = "server"
    /\ env # None
    /\ health' = Some(health_check(env[1]))
    /\ UNCHANGED <<last_cmd, env, exit_status, pc, delay, skip_content, sleeps>>
    /\ UNCHANGED storeVars
    /\ UNCHANGED crawlVars
    /\ UNCHANGED batchVars

NextHealth == ServerStart \/ HealthCheck

SpecHealth == InitHealth /\ [][NextHealth]_vars

-----------------------------------------------------------------------------
\* Site crawler (crawl_site).

\* The href of an anchor: absolute (its own host and path), relative to the
\* site root, a bare fragment, or empty.
Href(kind, h, p) == [kind |-> kind, host |-> h, path |-> p]

Hrefs == {Href("rel", <<>>, <<"a">>), Href("rel", <<>>, <<"b">>), Href("rel", <<>>, <<"c">>), Href("rel", <<>>, <<"b", ".PDF">>), Href("frag", <<>>, <<>>), Href("abs", SubHost, <<"a">>), Href("abs", OtherHost, <<"a">>), Href("empty", <<>>, <<>>)}

\* The anchor lists a fetched page may carry, in document order.
RECURSIVE SeqsUpTo(_, _)
SeqsUpTo(S, n) == IF n = 0 THEN {<<>>} ELSE SeqsUpTo(S, n - 1) \cup {Append(a, x) : a \in SeqsUpTo(S, n - 1), x \in S}

\* A page with two distinct links of the seed's host and one link to another
\* host, in any order.
ScenarioHrefs == {Href("rel", <<>>, <<"b">>), Href("rel", <<>>, <<"c">>), Href("abs", OtherHost, <<"a">>)}
ScenarioAnchorLists == {o \in [1..3 -> ScenarioHrefs] : Range(o) = ScenarioHrefs}

AnchorLists == SeqsUpTo(Hrefs, MaxLinks) \cup ScenarioAnchorLists

Seeds == {Url(ExampleHost, <<"a">>), Url(SubHost, <<"a">>)}

\* urljoin(current_url, href)
urljoin(current_url, href) ==
    CASE href.kind = "abs" -> Url(href.host, href.path)
      [] href.kind = "frag" -> Url(current_url.host, Append(current_url.path, "#"))
      [] OTHER -> Url(current_url.host, href.path)

SkipPatterns == {"#", "javascript:", "mailto:", "tel:", ".pdf", ".zip", ".png", ".jpg", ".gif"}

\* any(skip_pattern in absolute_url.lower() for skip_pattern in [...])
HasSkipPattern(u) == \E k \in DOMAIN u.path : Lower(u.path[k]) \in SkipPatterns

\* A substring test of the host (not what the code does).
SameDomainSubstring(link_netloc, base) == IsSubSeq(base, link_netloc)
\* parsed_link.netloc == base_domain
SameDomain(link_netloc, base) == link_netloc = base

\* absolute_url not in [q[0] for q in queue]
NotQueued(u, q) == u \notin {q[k][1] : k \in DOMAIN q}

\* absolute_url not in visited
NotVisited(u, seen) == u \notin seen

\* The test a resolved link passes to be kept (lines 918-938).
LinkSurvives(absolute_url, base, seen, q) ==
    /\ SameDomain(netloc(absolute_url), base)
    /\ NotVisited(absolute_url, seen)
    /\ NotQueued(absolute_url, q)
    /\ ~HasSkipPattern(absolute_url)

\* new_links of one page: the anchors with a non-empty href, resolved, that
\* pass the test; the queue they are tested against is the one before any of
\* them is appended.
ExtractLinks(current_url, anchors, base, seen, q) ==
    LET hrefs == SelectSeq(anchors, LAMBDA a : a.kind # "empty")
        resolved == [k \in DOMAIN hrefs |-> urljoin(current_url, hrefs[k])]
    IN SelectSeq(resolved, LAMBDA u : LinkSurvives(u, base, seen, q))

\* A link put in the queue at the depth of its page (not what the code does).
ChildDepthSame(depth) == depth
\* for new_url in new_links: queue.append((new_url, depth + 1))
ChildDepth(depth) == depth + 1
\* The links put at the front of the queue (not what the code does).
EnqueueFront(q, new_links, depth) == [k \in DOMAIN new_links |-> <<new_links[k], ChildDepth(depth)>>] \o q
\* queue.append at the back, one link after the other.
Enqueue(q, new_links, depth) == q \o [k \in DOMAIN new_links |-> <<new_links[k], ChildDepth(depth)>>]

\* The loop test with <= (not what the code does).
LoopCondOffByOne(q, count, pages) == q # <<>> /\ count <= pages
\* while queue and crawled_count < max_pages
LoopCond(q, count, pages) == q # <<>> /\ count < pages

\* The skip test without the visited set (not what the code does).
ShouldSkipDepthOnly(current_url, depth, seen, maxd) == depth > maxd
\* if current_url in visited or depth > max_depth: continue
ShouldSkip(current_url, depth, seen, maxd) == current_url \in seen \/ depth > maxd

\* The test with <= (not what the code does).
ExtractsLinksInclusive(depth, maxd) == depth <= maxd
\* if depth < max_depth (links are extracted)
ExtractsLinks(depth, maxd) == depth < maxd

\* A read of the head that leaves it in the queue (not what the code does).
PopKeep(q) == q
\* queue.pop(0): what is left of the queue.
Pop(q) == Tail(q)

\* if queue and delay > 0: time.sleep(delay)
Sleeps(q, d) == q # <<>> /\ d > 0

\* site_dir = Path(get_output_directory()) / slugify(base_domain)
SiteDir(base) == <<slugify(HostText(base))>>

\* The answers of the collaborators tried during a crawl.
CrawlResponses(u) == {r \in ResponsesFor(u) : r.title = <<"a", "b">> /\ r.content = "ok" /\ r.meta \in {"raise", "ok"}}

\* The --max-depth and --max-pages given: every pair of small values, and
\* one run with a page limit far above what the site holds.
ScenarioOptions == [max_depth |-> 1, max_pages |-> 10]
CrawlOptions == {[max_depth |-> d, max_pages |-> p] : d \in -1..MaxDepthOpt, p \in -1..MaxPagesOpt} \cup {ScenarioOptions}

InitCrawl ==
    /\ InitNoBatch
    /\ url \in {Some(u) : u \in Seeds}
    /\ \E o \in CrawlOptions : max_depth = o.max_depth /\ max_pages = o.max_pages
    /\ delay \in {0, 1}
    /\ skip_content \in BOOLEAN
    /\ base_domain = netloc(url[1])
    /\ site_dir = SiteDir(base_domain)
    /\ store = MkDirs(EmptyStore, site_dir)
    /\ now = 0
    /\ source_info = None
    /\ add_log = <<>>
    /\ last_add = None
    /\ exit_status = None
    /\ sleeps = 0
    /\ last_cmd = None
    /\ env = None
    /\ health = None
    /\ visited = {}
    /\ queue = <<<<url[1], 0>>>>
    /\ crawled_count = 0
    /\ crawl_log = <<>>
    /\ enq_log = <<>>
    /\ last_step = None
    /\ report = None
    /\ pc = "crawl"

current_url == queue[1][1]
depth == queue[1][2]

\* What the last iteration did: its entry, how it ended, whether it slept and
\* the links it read and did not keep.
Step(outcome, slept, dropped) == Some([url |-> current_url, depth |-> depth, outcome |-> outcome, slept |-> slept, dropped |-> dropped])

\* The resolved links of a page that were not appended to the queue.
Dropped(cur, anchors, new_links) == {urljoin(cur, anchors[k]) : k \in {j \in DOMAIN anchors : anchors[j].kind # "empty"}} \ Range(new_links)

\* What the loop keeps of a fetched page: new_links, and the links it dropped.
PageLinks(cur, anchors, base, seen, q) ==
    With(ExtractLinks(cur, anchors, base, seen, q), LAMBDA new_links : [new_links |-> new_links, dropped |-> Dropped(cur, anchors, new_links)])

\* The loop runs once more and its entry is not skipped.
Crawls ==
    /\ pc = "crawl"
    /\ LoopCond(queue, crawled_count, max_pages)
    /\ ~ShouldSkip(current_url, depth, visited, max_depth)

\* An iteration that crawls: the head is popped, marked visited, counted and
\* given to _add_single_source.
Visit(resp, r) ==
    /\ visited' = visited \cup {current_url}
    /\ crawled_count' = crawled_count + 1
    /\ crawl_log' = Append(crawl_log, queue[1])
    /\ AddApply(current_url, skip_content, site_dir, resp, r)
    /\ UNCHANGED <<url, max_depth, max_pages, delay, skip_content, base_domain, site_dir, exit_status, report>>
    /\ UNCHANGED batchVars
    /\ UNCHANGED llmVars

\* Where the loop would be had the exception propagated (not what the code does).
OnExceptionPropagate == "crawl_aborted"
\* except Exception as e: print(...): the exception of a crawl step is
\* swallowed and the loop goes on.
OnException == "crawl"

\* The end of an iteration that reached the delay (lines 950-954).
EndOfIteration(outcome, dropped, q) ==
    /\ last_step' = Step(outcome, Sleeps(q, delay), dropped)
    /\ queue' = q
    /\ sleeps' = IF Sleeps(q, delay) THEN sleeps + 1 ELSE sleeps

\* The popped entry is skipped: already visited, or too deep.
CrawlSkip ==
    /\ pc = "crawl"
    /\ LoopCond(queue, crawled_count, max_pages)
    /\ ShouldSkip(current_url, depth, visited, max_depth)
    /\ queue' = Pop(queue)
    /\ last_step' = Step("skip", FALSE, {})
    /\ UNCHANGED <<pc, url, max_depth, max_pages, delay, skip_content, base_domain, site_dir, exit_status, report, visited, crawled_count, crawl_log, enq_log, sleeps>>
    /\ UNCHANGED storeVars
    /\ UNCHANGED batchVars
    /\ UNCHANGED llmVars

\* _add_single_source returned False: continue, past the delay.
CrawlAddFailed ==
    /\ Crawls
    /\ last_step' = Step("add_failed", FALSE, {})
    /\ queue' = Pop(queue)
    /\ pc' = "crawl"
    /\ UNCHANGED <<enq_log, sleeps>>
    /\ \E resp \in CrawlResponses(current_url) :
        \E r \in {AddSingleSource(store, current_url, skip_content, site_dir, resp, now)} :
            /\ ~r.ok
            /\ Visit(resp, r)

\* The page was added at the depth limit: no links are extracted.
CrawlLeaf ==
    /\ Crawls
    /\ ~ExtractsLinks(depth, max_depth)
    /\ EndOfIteration("leaf", {}, Pop(queue))
    /\ pc' = "crawl"
    /\ UNCHANGED enq_log
    /\ \E resp \in CrawlResponses(current_url) :
        \E r \in {AddSingleSource(store, current_url, skip_content, site_dir, resp, now)} :
            /\ r.ok
            /\ Visit(resp, r)

\* The page was added, and fetching or parsing it for links raised: the
\* handler of line 947 logs it, no link is queued.
CrawlFetchRaised ==
    /\ Crawls
    /\ ExtractsLinks(depth, max_depth)
    /\ EndOfIteration("fetch_raised", {}, Pop(queue))
    /\ pc' = OnException
    /\ UNCHANGED enq_log
    /\ \E resp \in CrawlResponses(current_url) :
        \E r \in {AddSingleSource(store, current_url, skip_content, site_dir, resp, now)} :
            /\ r.ok
            /\ Visit(resp, r)

\* The page was added and its links were extracted and queued.
CrawlExpand ==
    /\ Crawls
    /\ ExtractsLinks(depth, max_depth)
    /\ pc' = "crawl"
    /\ \E resp \in CrawlResponses(current_url) :
        \E r \in {AddSingleSource(store, current_url, skip_content, site_dir, resp, now)} :
            /\ r.ok
            /\ \E page \in {PageLinks(current_url, anchors, base_domain, visited \cup {current_url}, Pop(queue)) : anchors \in AnchorLists} :
                /\ EndOfIteration("expanded", page.dropped, Enqueue(Pop(queue), page.new_links, depth))
                /\ enq_log' = enq_log \o [k \in DOMAIN page.new_links |-> [url |-> page.new_links[k], depth |-> ChildDepth(depth), from |-> current_url]]
            /\ Visit(resp, r)

\* The loop ends and the report is printed (lines 956-958).
CrawlFinish ==
    /\ pc = "crawl"
    /\ ~LoopCond(queue, crawled_count, max_pages)
    /\ pc' = "crawl_done"
    /\ report' = Some([pages_crawled |-> crawled_count, not_crawled |-> Len(queue)])
    /\ UNCHANGED <<url, max_depth, max_pages, delay, skip_content, base_domain, site_dir, exit_status, visited, queue, crawled_count, crawl_log, enq_log, last_step, sleeps>>
    /\ UNCHANGED storeVars
    /\ UNCHANGED batchVars
    /\ UNCHANGED llmVars

NextCrawl == CrawlSkip \/ CrawlAddFailed \/ CrawlLeaf \/ CrawlFetchRaised \/ CrawlExpand \/ CrawlFinish

SpecCrawl == InitCrawl /\ [][NextCrawl]_vars

\* The loop is one sequential process: an iteration that can run does run.
FairCrawl == SpecCrawl /\ WF_vars(NextCrawl)

-----------------------------------------------------------------------------
\* add_sources_batch, from the parsed url_list on (lines 456-483).

BatchUrls == {Url(ExampleHost, <<"a">>), Url(VideoHost, <<"v">>)}

\* The answers of the collaborators tried during a batch.
BatchResponses(u) == {r \in ResponsesFor(u) : r.title = <<"a", "b">>}

InitBatch ==
    /\ InitCommon
    /\ InitNoCrawl
    /\ url_list \in SeqsUpTo(BatchUrls, MaxBatch)
    /\ delay \in {0, 1}
    /\ skip_content \in BOOLEAN
    /\ i = 0
    /\ successful = 0
    /\ failed = 0
    /\ batch_log = <<>>
    /\ pc = "batch"

\* if not url_list: print("No URLs found to process"); return
BatchEmpty ==
    /\ pc = "batch"
    /\ url_list = <<>>
    /\ pc' = "batch_done"
    /\ exit_status' = Some(0)
    /\ UNCHANGED <<delay, skip_content, sleeps>>
    /\ UNCHANGED storeVars
    /\ UNCHANGED crawlVars
    /\ UNCHANGED batchVars
    /\ UNCHANGED llmVars

\* A counter incremented whatever the outcome (not what the code does).
CountAlways(n, hit) == n + 1
\* successful += 1 / failed += 1
Count(n, hit) == IF hit THEN n + 1 ELSE n

\* if i < len(url_list) and delay > 0: time.sleep(delay)
BatchSleeps(k, n, d) == k < n /\ d > 0

\* One iteration of the for loop: the next URL is given to
\* _add_single_source and counted.
BatchStep ==
    /\ pc = "batch"
    /\ i < Len(url_list)
    /\ \E resp \in BatchResponses(url_list[i + 1]) :
        LET u == url_list[i + 1]
            success == AddResult(u, skip_content, <<>>, resp)
        IN /\ AddStep(u, skip_content, <<>>, resp)
           /\ successful' = Count(successful, success)
           /\ failed' = Count(failed, ~success)
           /\ batch_log' = Append(batch_log, [url |-> u, index |-> i + 1, success |-> success])
    /\ i' = i + 1
    /\ sleeps' = IF BatchSleeps(i + 1, Len(url_list), delay) THEN sleeps + 1 ELSE sleeps
    /\ UNCHANGED <<pc, url_list, delay, skip_content, exit_status>>
    /\ UNCHANGED crawlVars
    /\ UNCHANGED llmVars

\* The tally is printed and the command returns.
BatchFinish ==
    /\ pc = "batch"
    /\ url_list # <<>>
    /\ i = Len(url_list)
    /\ pc' = "batch_done"
    /\ report' = Some([successful |-> successful, failed |-> failed, total |-> Len(url_list)])
    /\ exit_status' = Some(0)
    /\ UNCHANGED <<url, max_depth, max_pages, base_domain, site_dir, visited, queue, crawled_count, crawl_log, enq_log, last_step>>
    /\ UNCHANGED <<delay, skip_content, sleeps>>
    /\ UNCHANGED storeVars
    /\ UNCHANGED batchVars
    /\ UNCHANGED llmVars

NextBatch == BatchEmpty \/ BatchStep \/ BatchFinish

SpecBatch == InitBatch /\ [][NextBatch]_vars

-----------------------------------------------------------------------------
\* All commands on one output directory.

\* Any of the commands, run on an output directory: add_source, crawl_site
\* and add_sources_batch on a new one, the summaries and status on what
\* earlier adds left.
InitOps == Init \/ InitCrawl \/ InitBatch \/ InitSummarize

NextOps == Next \/ NextCrawl \/ NextBatch \/ NextSummarize

SpecOps == InitOps /\ [][NextOps]_vars

-----------------------------------------------------------------------------
\* Properties of the crawler (checked under SpecCrawl, the temporal ones under
\* FairCrawl).

Max(a, b) == IF a >= b THEN a ELSE b

CrawlDone == pc = "crawl_done"

\* C1: no URL is given to _add_single_source more than once, and in every
\* state the visited set has exactly crawled_count elements (as many as the
\* calls of _add_single_source made so far).
C1_VisitedOncePerUrl ==
    /\ Cardinality(visited) = crawled_count
    /\ Len(crawl_log) = crawled_count
    /\ now = crawled_count
    /\ \A j, k \in DOMAIN crawl_log : j # k => crawl_log[j][1] # crawl_log[k][1]
    /\ visited = {crawl_log[k][1] : k \in DOMAIN crawl_log}

\* A crawl that ended after meeting an already visited URL in the frontier.
C1_Witness ==
    /\ CrawlDone
    /\ crawled_count >= 2
    /\ last_step # None
    /\ last_step[1].outcome = "skip"
    /\ last_step[1].url \in visited
    /\ last_step[1].depth <= max_depth

\* C2 as stated: for every max_depth and max_pages, crawled_count never
\* exceeds max_pages and nothing deeper than max_depth is put in the frontier
\* (the seed, put there at depth 0, included).
C2_AsStated ==
    /\ crawled_count <= max_pages
    /\ \A k \in DOMAIN queue : queue[k][2] <= max_depth
    /\ \A k \in DOMAIN enq_log : enq_log[k].depth <= max_depth

\* C2 amended: crawled_count never exceeds max_pages when max_pages >= 0 (it
\* stays 0 when max_pages is negative), and no link found on a page is put in
\* the frontier deeper than max_depth; the one entry that can be deeper than
\* max_depth is the seed at depth 0, when max_depth is negative.
C2_PageAndDepthBounds ==
    /\ crawled_count <= Max(max_pages, 0)
    /\ \A k \in DOMAIN enq_log : enq_log[k].depth <= max_depth
    /\ \A k \in DOMAIN queue : queue[k][2] <= max_depth \/ (queue[k] = <<url[1], 0>> /\ crawled_count = 0)

\* The page limit stopped a crawl whose frontier still holds a link at the
\* depth limit.
C2_Witness ==
    /\ CrawlDone
    /\ max_pages >= 1
    /\ crawled_count = max_pages
    /\ queue # <<>>
    /\ \E k \in DOMAIN enq_log : enq_log[k].depth = max_depth

\* C3: every link put in the frontier, and so every URL crawled after the
\* seed, has exactly the seed's host.
C3_SameHostOnly ==
    /\ \A k \in DOMAIN enq_log : enq_log[k].url.host = url[1].host
    /\ \A k \in DOMAIN crawl_log : k > 1 => crawl_log[k][1].host = url[1].host
    /\ \A k \in DOMAIN queue : queue[k][1].host = url[1].host

\* A page of example.com carrying a link to sub.example.com next to a link of
\* its own host was expanded, and the crawl went on to a linked page.
C3_Witness ==
    /\ url[1].host = ExampleHost
    /\ last_step # None
    /\ last_step[1].outcome = "expanded"
    /\ \E u \in last_step[1].dropped : u.host = SubHost
    /\ \E k \in DOMAIN enq_log : enq_log[k].from = last_step[1].url
    /\ crawled_count >= 2

\* C4 as stated: over the whole run a URL is put in the frontier at most once.
C4_EnqueuedAtMostOnce == \A j, k \in DOMAIN enq_log : j # k => enq_log[j].url # enq_log[k].url

\* C5: the loop terminates, and when it has the frontier is empty or
\* crawled_count >= max_pages.
C5_Terminates == <>CrawlDone /\ [](CrawlDone => (queue = <<>> \/ crawled_count >= max_pages))

\* The page limit ended a crawl of a cyclic site: the last page expanded links
\* back to the seed.
C5_Witness ==
    /\ CrawlDone
    /\ queue # <<>>
    /\ crawled_count >= max_pages
    /\ last_step # None
    /\ last_step[1].outcome = "expanded"
    /\ url[1] \in last_step[1].dropped
    /\ last_step[1].url # url[1]

StepFailed == last_step # None /\ last_step[1].outcome \in {"add_failed", "fetch_raised"}

\* C6: a step that fails (the add returns False, or the link fetch raises)
\* leaves the loop running with the rest of the frontier untouched, and the
\* crawl still reaches its report.
C6_FailureDoesNotAbort ==
    /\ [][(last_step' # last_step /\ StepFailed') => (pc' = "crawl" /\ queue' = Tail(queue))]_vars
    /\ (StepFailed ~> (CrawlDone /\ report # None))
    /\ [](CrawlDone => (queue = <<>> \/ crawled_count >= max_pages))

\* A crawl reported after a failed step was followed by a successful one.
C6_Witness ==
    /\ CrawlDone
    /\ report # None
    /\ crawled_count >= 3
    /\ Len(add_log) < crawled_count
    /\ last_step[1].outcome \in {"leaf", "expanded"}

-----------------------------------------------------------------------------
\* Properties of add_sources_batch (checked under SpecBatch).

BatchDone == pc = "batch_done"

\* C7: the URLs are processed once each and in order, successful + failed is
\* the number processed, successful counts the adds that succeeded, and the
\* command returns (status 0) with a tally over the whole list.
C7_BatchTally ==
    /\ Len(batch_log) = i
    /\ \A k \in DOMAIN batch_log : batch_log[k].url = url_list[k] /\ batch_log[k].index = k
    /\ successful + failed = i
    /\ successful = Cardinality({k \in DOMAIN batch_log : batch_log[k].success})
    /\ now = i
    /\ BatchDone => exit_status = Some(0) /\ i = Len(url_list)
    /\ (BatchDone /\ url_list # <<>>) => report = Some([successful |-> successful, failed |-> failed, total |-> Len(url_list)])

\* Three URLs, one of which failed: 2 successful, 1 failed, 3 total.
C7_Witness ==
    /\ BatchDone
    /\ report = Some([successful |-> 2, failed |-> 1, total |-> 3])
    /\ exit_status = Some(0)
    /\ ~batch_log[2].success

-----------------------------------------------------------------------------
\* Properties of the extractors and the store (checked under Spec).

ExtractionFailed(resp) == resp.meta \in {"raise", "none", "no_title"}

DefaultTitle(u) == IF IsVideoUrl(u) THEN YoutubeTitle ELSE WebTitle

\* C8 as stated: get_source_info never raises, and whenever the extraction
\* failed (the provider raised, or returned nothing or no title) the record
\* has the error field, the default title and date_added.
C8_ErrorRecordOnFailure ==
    last_add # None =>
        /\ ~source_info[1].exc
        /\ ExtractionFailed(last_add[1].resp) =>
            /\ source_info[1].val[1].error # Absent
            /\ source_info[1].val[1].title = DefaultTitle(last_add[1].url)
            /\ source_info[1].val[1].date_added = now - 1

\* C9 as stated: when the content extraction fails, for a video as for an
\* article, the add still succeeds and content.md holds the error text.
C9_ContentFailureBecomesText ==
    (last_add # None /\ last_add[1].source_dir # None /\ ~last_add[1].skip /\ last_add[1].resp.content = "raise") =>
        /\ last_add[1].ok
        /\ store[last_add[1].source_dir[1]].content = Some(<<"error_text", last_add[1].url>>)

\* The directory create_source_directory returned for an add.
DirOf(entry) == entry.dir

LastAddTo(p) == CHOOSE k \in DOMAIN add_log : DirOf(add_log[k]) = p /\ \A j \in DOMAIN add_log : j > k => DirOf(add_log[j]) # p

\* C10: the directories holding a data.yaml are exactly those of the slugs of
\* the records added, one per slug, and each data.yaml is the record of the
\* last add whose title gives that slug.
C10_LastWriteWins ==
    /\ \A k \in DOMAIN add_log : DirOf(add_log[k]) \in DOMAIN store /\ store[DirOf(add_log[k])].data = Some(add_log[LastAddTo(DirOf(add_log[k]))].info)
    /\ {p \in DOMAIN store : store[p].data # NoFile} = {DirOf(add_log[k]) : k \in DOMAIN add_log}
    /\ \A j, k \in DOMAIN add_log : (add_log[j].info.title = add_log[k].info.title /\ add_log[j].parent = add_log[k].parent) => DirOf(add_log[j]) = DirOf(add_log[k])
    /\ \A k \in DOMAIN add_log : DirOf(add_log[k]) = JoinPath(add_log[k].parent, create_source_slug(add_log[k].info.title))

\* Two records with different titles and one slug were added: the directory
\* holds the second.
C10_Witness ==
    /\ Len(add_log) = 2
    /\ add_log[1].info.title # add_log[2].info.title
    /\ DirOf(add_log[1]) = DirOf(add_log[2])
    /\ store[DirOf(add_log[1])].data = Some(add_log[2].info)
    /\ add_log[1].info # add_log[2].info

-----------------------------------------------------------------------------
\* Summaries and configuration.

\* C11: a summarize or summarize_all command that reached the LLM call in an
\* environment with a configuration failure (no LLM_MODEL, or no usable API
\* key) exits with a non-zero status and hands no further source to the LLM
\* after the first.
C11_ConfigFailureFatal ==
    (last_cmd # None /\ last_cmd[1].cmd \in {"summarize", "summarize_all"} /\ ConfigFailure(last_cmd[1].env) /\ last_cmd[1].requested # <<>>) =>
        /\ last_cmd[1].exit # 0
        /\ Len(last_cmd[1].requested) = 1

\* No key of the environment is set to the empty string.
KeysNotEmpty(e) == e.LLM_KEY # Some("") /\ e.ANTHROPIC_API_KEY # Some("") /\ e.OPENAI_API_KEY # Some("")

\* C12: GET /health answers "unhealthy" exactly in the environments where
\* the model identifier is absent or summarize_content finds no usable API
\* key for the model, and "healthy" with the model identifier in all others
\* (stated for the environments whose keys are unset or non-empty).
C12_HealthMatchesConfiguration ==
    (health # None /\ KeysNotEmpty(env[1])) =>
        IF NoModel(env[1]) \/ ConfigFailure(env[1])
        THEN health[1].status = "unhealthy"
        ELSE health[1] = Healthy(env[1].LLM_MODEL[1])

-----------------------------------------------------------------------------
\* The crawl scenario, the report, the enqueueing, the delay and the order.

SeedA == Url(ExampleHost, <<"a">>)
LinkB == Url(ExampleHost, <<"b">>)
LinkC == Url(ExampleHost, <<"c">>)
CrossLink == Url(OtherHost, <<"a">>)

\* The run of the scenario: seed /a, max_depth = 1, max_pages = 10, and every
\* add so far succeeded (each crawled page left its record in add_log).
ScenarioRun ==
    /\ url = Some(SeedA)
    /\ max_depth = ScenarioOptions.max_depth
    /\ max_pages = ScenarioOptions.max_pages
    /\ Len(add_log) = Len(crawl_log)

\* The entries the queue received from the seed page.
FromSeed == {k \in DOMAIN enq_log : enq_log[k].from = SeedA}

\* C13: the seed page /a with two distinct same-host links and one
\* cross-host link gives new_links = the two same-host links, in page order,
\* and drops the cross-host link; and a scenario run whose seed page gave two
\* distinct links visits /a first at depth 0, has exactly these two entries
\* enqueued, at depth 1 and of the seed's host, and ends with crawled count 3
\* and an empty frontier.
C13_Scenario ==
    /\ \A anchors \in ScenarioAnchorLists :
        /\ PageLinks(SeedA, anchors, netloc(SeedA), {SeedA}, <<>>).new_links \in {<<LinkB, LinkC>>, <<LinkC, LinkB>>}
        /\ PageLinks(SeedA, anchors, netloc(SeedA), {SeedA}, <<>>).dropped = {CrossLink}
    /\ (ScenarioRun /\ Cardinality({enq_log[k].url : k \in FromSeed}) = 2 /\ Cardinality(FromSeed) = 2) =>
        /\ crawl_log[1] = <<SeedA, 0>>
        /\ Len(enq_log) = 2
        /\ \A k \in DOMAIN enq_log : enq_log[k].depth = 1 /\ enq_log[k].url.host = ExampleHost
        /\ CrawlDone => (crawled_count = 3 /\ queue = <<>> /\ report = Some([pages_crawled |-> 3, not_crawled |-> 0]))

\* The scenario run has ended: /a, then /b and /c were crawled.
C13_Witness ==
    /\ CrawlDone
    /\ ScenarioRun
    /\ enq_log = <<[url |-> LinkB, depth |-> 1, from |-> SeedA], [url |-> LinkC, depth |-> 1, from |-> SeedA]>>
    /\ crawl_log = <<<<SeedA, 0>>, <<LinkB, 1>>, <<LinkC, 1>>>>
    /\ crawled_count = 3
    /\ queue = <<>>

\* C14 as stated: when crawl_site has ended, no URL left in the queue is in
\* the visited set, and the reported number of pages crawled is the number of
\* distinct URLs visited.
C14_ReportCountsUnvisited ==
    CrawlDone =>
        /\ \A k \in DOMAIN queue : queue[k][1] \notin visited
        /\ report[1].pages_crawled = Cardinality(visited)

\* The step is a run of summarize_all.
IsSummarizeAll == last_cmd' # None /\ last_cmd'[1].cmd = "summarize_all" /\ pc = "shell"

\* The last command was a summarize_all in which every summary asked for
\* was written.
AllSucceeded == last_cmd # None /\ last_cmd[1].cmd = "summarize_all" /\ last_cmd[1].out[1] = Len(last_cmd[1].requested)

\* C15: a run of summarize_all changes nothing but the summary of sources
\* that had a content.md and no summary.md; a summary that exists is neither
\* changed nor asked again from the LLM; every source without content.md is
\* counted as failed; and a run that follows a run in which every summary
\* succeeded changes no file.
C15_SummarizeAllOnlyMissing ==
    [][IsSummarizeAll =>
        /\ DOMAIN store' = DOMAIN store
        /\ \A p \in DOMAIN store :
            /\ store'[p].data = store[p].data
            /\ store'[p].content = store[p].content
            /\ store'[p].summary # store[p].summary => (p \in get_sources_list(store) /\ store[p].content # NoFile /\ store[p].summary = NoFile)
            /\ store[p].summary # NoFile => \A k \in DOMAIN last_cmd'[1].requested : last_cmd'[1].requested[k] # p
        /\ last_cmd'[1].out[2] >= Cardinality({p \in get_sources_list(store) : store[p].content = NoFile})
        /\ AllSucceeded => store' = store]_vars

\* A run of summarize_all wrote one summary and left alone a source that
\* already had one.
C15_Witness ==
    /\ last_cmd # None
    /\ last_cmd[1].cmd = "summarize_all"
    /\ last_cmd[1].out[1] = 1
    /\ Len(last_cmd[1].requested) = 1
    /\ \E p \in get_sources_list(store) : store[p].summary # NoFile /\ p # last_cmd[1].requested[1]
    /\ store[last_cmd[1].requested[1]].summary # NoFile

-----------------------------------------------------------------------------
\* The lifecycle of the store.

Files == {"data", "content", "summary"}

\* The directories an add makes before it extracts anything: the output
\* directory, and the site directory of a crawl.
ParentDirs == Prefixes(site_dir)

\* The step ran _add_single_source and its metadata extraction returned a
\* record without an error.
MetadataOk == source_info' # None /\ ~source_info'[1].exc /\ ~HasError(source_info'[1].val[1])

\* C16: in every step of every command, every directory and every data.yaml,
\* content.md and summary.md that exists still exists afterwards; a directory
\* that appears, other than the output and site directories, is the source
\* directory of an add whose metadata extraction returned a record without an
\* error, and so is every directory whose data.yaml is written; and a status
\* step leaves the store as it is.
C16_NothingRemoved ==
    [][/\ \A p \in DOMAIN store : p \in DOMAIN store' /\ \A f \in Files : store[p][f] # NoFile => store'[p][f] # NoFile
       /\ \A p \in DOMAIN store' :
            (p \notin DOMAIN store /\ p \notin ParentDirs) \/ (p \in DOMAIN store /\ store'[p].data # store[p].data) =>
                (MetadataOk /\ last_add' # None /\ last_add'[1].source_dir = Some(p))
       /\ (last_cmd' # None /\ last_cmd'[1].cmd = "status" /\ pc = "shell") => store' = store]_vars

\* An add has put a second record in a directory that held a content.md, with
\* --skip-content: the content.md is still there.
C16_Witness ==
    /\ Len(add_log) = 2
    /\ add_log[1].dir = add_log[2].dir
    /\ last_add[1].skip
    /\ store[add_log[2].dir].content # NoFile
    /\ store[add_log[2].dir].data = Some(add_log[2].info)

\* The entries a step has added to enq_log.
NewEntries == SubSeq(enq_log', Len(enq_log) + 1, Len(enq_log'))

\* new_links keeps the order of the anchors of the page: it is the resolved
\* anchors at increasing positions.
InPageOrder(new_links, cur, anchors) ==
    \E f \in [DOMAIN new_links -> DOMAIN anchors] :
        /\ \A j, k \in DOMAIN new_links : j < k => f[j] < f[k]
        /\ \A k \in DOMAIN new_links : anchors[f[k]].kind # "empty" /\ urljoin(cur, anchors[f[k]]) = new_links[k]

\* C17: a step of crawl_site enqueues links only when the add of the popped
\* page succeeded and the page's depth is below max_depth; the links of a
\* page at depth d are enqueued at depth d + 1, behind everything the queue
\* held, and new_links lists them in the order of the page's anchors.
C17_EnqueueRule ==
    /\ [][/\ SubSeq(enq_log', 1, Len(enq_log)) = enq_log
          /\ queue' # queue => queue' = Tail(queue) \o [k \in DOMAIN NewEntries |-> <<NewEntries[k].url, NewEntries[k].depth>>]
          /\ NewEntries # <<>> =>
                /\ last_add'[1].url = queue[1][1]
                /\ last_add'[1].ok
                /\ queue[1][2] < max_depth
                /\ \A k \in DOMAIN NewEntries : NewEntries[k].from = queue[1][1] /\ NewEntries[k].depth = queue[1][2] + 1]_vars
    /\ [](pc = "crawl" /\ queue # <<>> =>
            \A anchors \in AnchorLists : InPageOrder(ExtractLinks(current_url, anchors, base_domain, visited \cup {current_url}, Tail(queue)), current_url, anchors))

\* A page at depth 1 below max_depth 2 was expanded and its two links stand
\* at depth 2 at the back of the queue, behind an entry of depth 1.
C17_Witness ==
    /\ last_step # None
    /\ last_step[1].outcome = "expanded"
    /\ last_step[1].depth = 1
    /\ Len(queue) >= 3
    /\ queue[1][2] = 1
    /\ queue[Len(queue) - 1][2] = 2
    /\ queue[Len(queue)][2] = 2
    /\ enq_log[Len(enq_log)].from = last_step[1].url
    /\ enq_log[Len(enq_log) - 1].from = last_step[1].url

\* C18 as stated: with delay > 0, a step that processed a URL (marked it
\* visited and counted it), whatever the outcome of its add, sleeps exactly
\* when the queue it leaves is not empty.
C18_SleepAfterEveryUrl ==
    [][(delay > 0 /\ crawled_count' = crawled_count + 1) => (sleeps' = sleeps + 1 <=> queue' # <<>>)]_vars

\* C19: in every state the depths of the queue never decrease from front to
\* back and its last entry is at most one level deeper than its first, and
\* the pages were crawled in non-decreasing depth order.
C19_BreadthFirst ==
    /\ \A j, k \in DOMAIN queue : j < k => queue[j][2] <= queue[k][2]
    /\ queue # <<>> => queue[Len(queue)][2] - queue[1][2] <= 1
    /\ \A j, k \in DOMAIN crawl_log : j < k => crawl_log[j][2] <= crawl_log[k][2]

\* Two levels stand in the queue, and pages of depth 0 and 1 were crawled.
C19_Witness ==
    /\ Len(queue) >= 2
    /\ queue[1][2] = 1
    /\ queue[Len(queue)][2] = 2
    /\ Len(crawl_log) >= 2
    /\ crawl_log[Len(crawl_log)][2] = 1

====
